---------------------------- MODULE Spec2Model ----------------------------
(***************************************************************************)
(* Heimdall: the configuration model (src/config), its derived             *)
(* Serialize / Deserialize implementations, start_service (src/lib.rs)     *)
(* and the process entry point (src/main.rs).                              *)
(*                                                                         *)
(* Text is a sequence of one-character strings, so that formatting and     *)
(* parsing (IpAddr's Display / FromStr, variant-name matching) are         *)
(* computed character by character.  Field names of the derived            *)
(* implementations are identifiers and are written as TLA+ strings.        *)
(***************************************************************************)
EXTENDS Integers, Sequences, FiniteSets, TLC

(***************************************************************************)
(* Bounds of the model.                                                    *)
(***************************************************************************)
\* Pool sizes offered to deserialization are 0 .. MaxConn.
MaxConn == 2

(***************************************************************************)
(* Option<T>: None is the empty sequence, Some(x) the one-element one.     *)
(***************************************************************************)
None == << >>
Some(x) == << x >>
IsSome(o) == Len(o) = 1
Unwrap(o) == o[1]

(***************************************************************************)
(* Text constants of the source.                                           *)
(***************************************************************************)
Txt_localhost == << "l", "o", "c", "a", "l", "h", "o", "s", "t" >>
Txt_development_user ==
    << "d", "e", "v", "e", "l", "o", "p", "m", "e", "n", "t", "-",
       "u", "s", "e", "r" >>
Txt_development_password ==
    << "d", "e", "v", "e", "l", "o", "p", "m", "e", "n", "t", "-",
       "p", "a", "s", "s", "w", "o", "r", "d" >>

(***************************************************************************)
(* enum DatabaseType { Postgres, #[default] Sqllite }                      *)
(* A value of the enum is its variant index.                               *)
(***************************************************************************)
Postgres == 0
Sqllite == 1
DatabaseType == { Postgres, Sqllite }

\* The names the derive writes and accepts: the variant identifiers.
Txt_Postgres == << "P", "o", "s", "t", "g", "r", "e", "s" >>
Txt_Sqllite == << "S", "q", "l", "l", "i", "t", "e" >>
DatabaseType_VARIANTS == << Txt_Postgres, Txt_Sqllite >>

\* (the attribute put on the first variant)
DatabaseType_default_first == Postgres
DatabaseType_default == Sqllite

(***************************************************************************)
(* IpAddr.  Only the V4 variant is constructed by the source; an address   *)
(* is [v |-> "V4", octets |-> <<a, b, c, d>>].                             *)
(***************************************************************************)
Ipv4Addr_new(a, b, c, d) == << a, b, c, d >>
IpAddr_V4(o) == [v |-> "V4", octets |-> o]

(***************************************************************************)
(* Default constructions.                                                  *)
(***************************************************************************)
DatabaseConfig_default ==
    [ database_type |-> DatabaseType_default,
      host          |-> Txt_localhost,
      port          |-> 5432,
      username      |-> Txt_development_user,
      password      |-> Some(Txt_development_password) ]

ConnectionPoolConfig_default ==
    [ min_connections            |-> 30,
      max_connections            |-> 100,
      max_lifetime_seconds       |-> 150,
      connection_timeout_ms      |-> 50,
      idle_timeout_ms            |-> 300,
      test_before_aquire         |-> FALSE,
      test_on_borrow             |-> FALSE,
      max_connection_age_seconds |-> None ]

ServerConfig_default ==
    [ ip   |-> IpAddr_V4(Ipv4Addr_new(127, 0, 0, 1)),
      port |-> 3000 ]

AppConfig_default ==
    [ database_config |-> DatabaseConfig_default,
      server_config   |-> ServerConfig_default ]

(***************************************************************************)
(* Decimal formatting and the IPv4 text form (Display / FromStr of         *)
(* IpAddr, which the human-readable serde implementation goes through).    *)
(***************************************************************************)
Digits == << "0", "1", "2", "3", "4", "5", "6", "7", "8", "9" >>
IsDigit(c) == \E i \in 1..10 : Digits[i] = c
DigitVal(c) == (CHOOSE i \in 1..10 : Digits[i] = c) - 1

RECURSIVE FmtNat(_)
FmtNat(n) ==
    IF n < 10 THEN << Digits[n + 1] >>
    ELSE FmtNat(n \div 10) \o << Digits[(n % 10) + 1] >>

\* Display for Ipv4Addr: the four octets in decimal, joined by ".".
Ipv4Addr_fmt(o) ==
    FmtNat(o[1]) \o << "." >> \o FmtNat(o[2]) \o << "." >> \o
    FmtNat(o[3]) \o << "." >> \o FmtNat(o[4])

IpAddr_fmt(ip) == Ipv4Addr_fmt(ip.octets)

\* The length of the run of decimal digits of s that starts at pos.
RECURSIVE DigitRun(_, _)
DigitRun(s, pos) ==
    IF pos <= Len(s) /\ IsDigit(s[pos]) THEN 1 + DigitRun(s, pos + 1) ELSE 0

\* The value of the k digits of s that start at pos.
RECURSIVE DigitsValue(_, _, _)
DigitsValue(s, pos, k) ==
    IF k = 0 THEN 0
    ELSE 10 * DigitsValue(s, pos, k - 1) + DigitVal(s[pos + k - 1])

\* One octet: one to three digits, no zero prefix, at most 255.
OctetOk(s, pos, k) ==
    /\ k >= 1
    /\ k <= 3
    /\ (s[pos] = "0" => k = 1)
    /\ DigitsValue(s, pos, k) <= 255

\* Four octets separated by ".", consuming the whole text.  None or Some.
RECURSIVE ReadOctets(_, _, _, _)
ReadOctets(s, pos, i, acc) ==
    IF i > 4 THEN (IF pos = Len(s) + 1 THEN Some(acc) ELSE None)
    ELSE LET p == IF i = 1 THEN pos
                  ELSE IF pos <= Len(s) /\ s[pos] = "." THEN pos + 1 ELSE 0
             k == IF p = 0 THEN 0 ELSE DigitRun(s, p)
         IN  IF p = 0 \/ ~OctetOk(s, p, k) THEN None
             ELSE ReadOctets(s, p + k, i + 1,
                             Append(acc, DigitsValue(s, p, k)))

\* FromStr for IpAddr on text without ":" (no such text is an IPv6
\* address, so the IPv4 parser decides).
IpAddr_from_str(s) ==
    LET r == ReadOctets(s, 1, 1, << >>)
    IN  IF IsSome(r) THEN Some(IpAddr_V4(Unwrap(r))) ELSE None

(***************************************************************************)
(* The self-describing data a format hands to and takes from the derived   *)
(* implementations: text, integers, booleans, null and maps.  A map is the *)
(* sequence of its entries, in document order.  Input that is a sequence   *)
(* (which the derived structs also accept, positionally) is not offered.   *)
(***************************************************************************)
\* Every datum carries all payload fields; t says which one is meant.
Null == [t |-> "null", s |-> << >>, n |-> 0, b |-> FALSE, m |-> << >>]
Str(s) == [Null EXCEPT !.t = "str", !.s = s]
Num(n) == [Null EXCEPT !.t = "int", !.n = n]
Bool(b) == [Null EXCEPT !.t = "bool", !.b = b]
Map(es) == [Null EXCEPT !.t = "map", !.m = es]
Entry(k, x) == [k |-> k, v |-> x]

HasKey(d, k) == \E i \in 1..Len(d.m) : d.m[i].k = k
Get(d, k) == d.m[CHOOSE i \in 1..Len(d.m) : d.m[i].k = k].v

(***************************************************************************)
(* #[derive(Serialize)]                                                    *)
(***************************************************************************)
\* Option<T>: None is written as null, Some(x) as x.
Serialize_Option_String(o) == IF IsSome(o) THEN Str(Unwrap(o)) ELSE Null
Serialize_Option_i64(o) == IF IsSome(o) THEN Num(Unwrap(o)) ELSE Null

\* A unit variant is written as its name.
\* (the variant written as its index)
Serialize_DatabaseType_index(x) == Num(x)
Serialize_DatabaseType(x) == Str(DatabaseType_VARIANTS[x + 1])

Serialize_IpAddr(ip) == Str(IpAddr_fmt(ip))

\* (the password kept out of the serialized form)
Serialize_DatabaseConfig_skip_password(c) ==
    Map(<< Entry("database_type", Serialize_DatabaseType(c.database_type)),
           Entry("host", Str(c.host)),
           Entry("port", Num(c.port)),
           Entry("username", Str(c.username)) >>)
Serialize_DatabaseConfig(c) ==
    Map(<< Entry("database_type", Serialize_DatabaseType(c.database_type)),
           Entry("host", Str(c.host)),
           Entry("port", Num(c.port)),
           Entry("username", Str(c.username)),
           Entry("password", Serialize_Option_String(c.password)) >>)

Serialize_ConnectionPoolConfig(c) ==
    Map(<< Entry("min_connections", Num(c.min_connections)),
           Entry("max_connections", Num(c.max_connections)),
           Entry("max_lifetime_seconds", Num(c.max_lifetime_seconds)),
           Entry("connection_timeout_ms", Num(c.connection_timeout_ms)),
           Entry("idle_timeout_ms", Num(c.idle_timeout_ms)),
           Entry("test_before_aquire", Bool(c.test_before_aquire)),
           Entry("test_on_borrow", Bool(c.test_on_borrow)),
           Entry("max_connection_age_seconds",
                 Serialize_Option_i64(c.max_connection_age_seconds)) >>)

Serialize_ServerConfig(c) ==
    Map(<< Entry("ip", Serialize_IpAddr(c.ip)),
           Entry("port", Num(c.port)) >>)

Serialize_AppConfig(c) ==
    Map(<< Entry("database_config", Serialize_DatabaseConfig(c.database_config)),
           Entry("server_config", Serialize_ServerConfig(c.server_config)) >>)

(***************************************************************************)
(* #[derive(Deserialize)]                                                  *)
(* A result is Ok(value) or Err(kind, at): the kind of serde error and the *)
(* field or variant it names.                                              *)
(***************************************************************************)
Ok(x) == [ok |-> TRUE, val |-> x, err |-> "", at |-> ""]
Err(kind, at) == [ok |-> FALSE, val |-> << >>, err |-> kind, at |-> at]

U16_MAX == 65535

Deserialize_u16(d) ==
    IF d.t # "int" THEN Err("invalid_type", "u16")
    ELSE IF d.n >= 0 /\ d.n <= U16_MAX THEN Ok(d.n)
    ELSE Err("invalid_value", "u16")

\* u32::MAX and the i64 limits lie outside the integers the model offers.
Deserialize_u32(d) ==
    IF d.t # "int" THEN Err("invalid_type", "u32")
    ELSE IF d.n >= 0 THEN Ok(d.n)
    ELSE Err("invalid_value", "u32")

Deserialize_i64(d) ==
    IF d.t # "int" THEN Err("invalid_type", "i64") ELSE Ok(d.n)

Deserialize_bool(d) ==
    IF d.t # "bool" THEN Err("invalid_type", "bool") ELSE Ok(d.b)

Deserialize_String(d) ==
    IF d.t # "str" THEN Err("invalid_type", "string") ELSE Ok(d.s)

\* Option<T>: null is None, anything else is handed to T.
Deserialize_Option_String(d) ==
    IF d.t = "null" THEN Ok(None)
    ELSE LET r == Deserialize_String(d) IN IF r.ok THEN Ok(Some(r.val)) ELSE r

Deserialize_Option_i64(d) ==
    IF d.t = "null" THEN Ok(None)
    ELSE LET r == Deserialize_i64(d) IN IF r.ok THEN Ok(Some(r.val)) ELSE r

\* A unit variant is read from its name, matched against VARIANTS.
Deserialize_DatabaseType(d) ==
    IF d.t # "str" THEN Err("invalid_type", "DatabaseType")
    ELSE IF \E i \in 1..Len(DatabaseType_VARIANTS) : DatabaseType_VARIANTS[i] = d.s
         THEN Ok((CHOOSE i \in 1..Len(DatabaseType_VARIANTS) :
                      DatabaseType_VARIANTS[i] = d.s) - 1)
         ELSE Err("unknown_variant", "DatabaseType")

\* IpAddr is read from text through FromStr.
Deserialize_IpAddr(d) ==
    IF d.t # "str" THEN Err("invalid_type", "IpAddr")
    ELSE LET r == IpAddr_from_str(d.s)
         IN  IF IsSome(r) THEN Ok(Unwrap(r)) ELSE Err("custom", "IpAddr")

(***************************************************************************)
(* The derived visit_map of a struct with the fields `fields` (in          *)
(* declaration order).  Entries are taken in document order: an unknown    *)
(* key is ignored, a repeated key is an error, and a value that does not   *)
(* deserialize ends the visit with its error.  After the last entry each   *)
(* field still unset is a missing field: None for an Option, an error      *)
(* otherwise (the first such field in declaration order is reported).      *)
(* rs[i] is what the deserializer of the type of the field that entry i    *)
(* names makes of the entry's value.                                       *)
(***************************************************************************)
InSeq(x, q) == \E i \in 1..Len(q) : q[i] = x

FirstMissing(fields, optional, slots) ==
    LET miss == { i \in 1..Len(fields) :
                     slots[fields[i]] = None /\ ~InSeq(fields[i], optional) }
    IN  IF miss = {} THEN 0 ELSE CHOOSE i \in miss : \A j \in miss : i <= j

Finish(fields, optional, slots) ==
    LET m == FirstMissing(fields, optional, slots)
    IN  IF m # 0 THEN Err("missing_field", fields[m])
        ELSE Ok([f \in { fields[i] : i \in 1..Len(fields) } |->
                    IF slots[f] = None THEN None ELSE Unwrap(slots[f])])

RECURSIVE VisitEntries(_, _, _, _, _, _)
VisitEntries(fields, optional, es, rs, i, slots) ==
    IF i > Len(es) THEN Finish(fields, optional, slots)
    ELSE LET k == es[i].k IN
         IF ~InSeq(k, fields)
         THEN VisitEntries(fields, optional, es, rs, i + 1, slots)
         ELSE IF slots[k] # None THEN Err("duplicate_field", k)
         ELSE IF ~rs[i].ok THEN rs[i]
         ELSE VisitEntries(fields, optional, es, rs, i + 1,
                           [slots EXCEPT ![k] = Some(rs[i].val)])

visit_map(fields, optional, es, rs) ==
    VisitEntries(fields, optional, es, rs, 1,
                 [f \in { fields[i] : i \in 1..Len(fields) } |-> None])

(***************************************************************************)
(* The structs: their fields in declaration order, the fields of Option    *)
(* type, and the deserializer of each field's type (a key that names no    *)
(* field has its value skipped).                                           *)
(***************************************************************************)
DatabaseConfig_FIELDS ==
    << "database_type", "host", "port", "username", "password" >>
\* (password declared String)
DatabaseConfig_OPTIONAL_none == << >>
DatabaseConfig_OPTIONAL == << "password" >>
DatabaseConfig_field(k, v) ==
    CASE k = "database_type" -> Deserialize_DatabaseType(v)
      [] k = "host"          -> Deserialize_String(v)
      [] k = "port"          -> Deserialize_u16(v)
      [] k = "username"      -> Deserialize_String(v)
      [] k = "password"      -> Deserialize_Option_String(v)
      [] OTHER               -> Ok(<< >>)

Deserialize_DatabaseConfig(d) ==
    IF d.t # "map" THEN Err("invalid_type", "DatabaseConfig")
    ELSE visit_map(DatabaseConfig_FIELDS, DatabaseConfig_OPTIONAL, d.m,
                   [i \in 1..Len(d.m) |-> DatabaseConfig_field(d.m[i].k, d.m[i].v)])

ConnectionPoolConfig_FIELDS ==
    << "min_connections", "max_connections", "max_lifetime_seconds",
       "connection_timeout_ms", "idle_timeout_ms", "test_before_aquire",
       "test_on_borrow", "max_connection_age_seconds" >>
\* (max_connection_age_seconds declared i64)
ConnectionPoolConfig_OPTIONAL_none == << >>
ConnectionPoolConfig_OPTIONAL == << "max_connection_age_seconds" >>
ConnectionPoolConfig_field(k, v) ==
    CASE k = "min_connections"            -> Deserialize_u32(v)
      [] k = "max_connections"            -> Deserialize_u32(v)
      [] k = "max_lifetime_seconds"       -> Deserialize_i64(v)
      [] k = "connection_timeout_ms"      -> Deserialize_i64(v)
      [] k = "idle_timeout_ms"            -> Deserialize_i64(v)
      [] k = "test_before_aquire"         -> Deserialize_bool(v)
      [] k = "test_on_borrow"             -> Deserialize_bool(v)
      [] k = "max_connection_age_seconds" -> Deserialize_Option_i64(v)
      [] OTHER                            -> Ok(<< >>)

\* (a deserializer that rejects min_connections > max_connections)
Deserialize_ConnectionPoolConfig_validated(d) ==
    LET r == IF d.t # "map" THEN Err("invalid_type", "ConnectionPoolConfig")
             ELSE visit_map(ConnectionPoolConfig_FIELDS, ConnectionPoolConfig_OPTIONAL, d.m,
                   [i \in 1..Len(d.m) |-> ConnectionPoolConfig_field(d.m[i].k, d.m[i].v)])
    IN  IF r.ok /\ r.val.min_connections > r.val.max_connections
        THEN Err("custom", "min_connections") ELSE r
Deserialize_ConnectionPoolConfig(d) ==
    IF d.t # "map" THEN Err("invalid_type", "ConnectionPoolConfig")
    ELSE visit_map(ConnectionPoolConfig_FIELDS, ConnectionPoolConfig_OPTIONAL, d.m,
                   [i \in 1..Len(d.m) |-> ConnectionPoolConfig_field(d.m[i].k, d.m[i].v)])

ServerConfig_FIELDS == << "ip", "port" >>
ServerConfig_OPTIONAL == << >>
ServerConfig_field(k, v) ==
    CASE k = "ip"   -> Deserialize_IpAddr(v)
      [] k = "port" -> Deserialize_u16(v)
      [] OTHER      -> Ok(<< >>)

Deserialize_ServerConfig(d) ==
    IF d.t # "map" THEN Err("invalid_type", "ServerConfig")
    ELSE visit_map(ServerConfig_FIELDS, ServerConfig_OPTIONAL, d.m,
                   [i \in 1..Len(d.m) |-> ServerConfig_field(d.m[i].k, d.m[i].v)])

AppConfig_FIELDS == << "database_config", "server_config" >>
AppConfig_OPTIONAL == << >>
AppConfig_field(k, v) ==
    CASE k = "database_config" -> Deserialize_DatabaseConfig(v)
      [] k = "server_config"   -> Deserialize_ServerConfig(v)
      [] OTHER                 -> Ok(<< >>)

Deserialize_AppConfig(d) ==
    IF d.t # "map" THEN Err("invalid_type", "AppConfig")
    ELSE visit_map(AppConfig_FIELDS, AppConfig_OPTIONAL, d.m,
                   [i \in 1..Len(d.m) |-> AppConfig_field(d.m[i].k, d.m[i].v)])

(***************************************************************************)
(* src/lib.rs: start_service.  AppState lives in src/state.rs; it is a     *)
(* container built from the configuration, and building it cannot fail.    *)
(* start_service yields its return value and the states it constructed.    *)
(***************************************************************************)
AppState_new(app_config) == [config |-> app_config]

\* (a start that rejects a configuration without a password)
start_service_checked(app_config) ==
    [ ret    |-> IF IsSome(app_config.database_config.password)
                 THEN Ok(<< >>) ELSE Err("custom", "password"),
      states |-> << AppState_new(app_config) >> ]
start_service(app_config) ==
    [ ret    |-> Ok(<< >>),
      states |-> << AppState_new(app_config) >> ]

(***************************************************************************)
(* The values and documents offered to the operations.                     *)
(***************************************************************************)
Txt_SQLite == << "S", "Q", "L", "i", "t", "e" >>
Txt_MySQL == << "M", "y", "S", "Q", "L" >>
Txt_postgres == << "p", "o", "s", "t", "g", "r", "e", "s" >>
Txt_empty == << >>
Txt_ip_256 == << "2", "5", "6", ".", "0", ".", "0", ".", "1" >>
Txt_ip_zero_prefix == << "1", "2", "7", ".", "0", ".", "0", ".", "0", "1" >>
Txt_ip_short == << "1", "2", "7", ".", "0", ".", "0" >>

DatabaseConfig_Values ==
    { [DatabaseConfig_default EXCEPT !.database_type = b, !.port = p,
                                     !.password = w] :
        b \in DatabaseType, p \in { 0, 5432, U16_MAX },
        w \in { None, Some(Txt_development_password) } }

ServerConfig_Values ==
    { [ip |-> IpAddr_V4(o), port |-> p] :
        o \in { Ipv4Addr_new(127, 0, 0, 1), Ipv4Addr_new(0, 0, 0, 0),
                Ipv4Addr_new(255, 255, 255, 255), Ipv4Addr_new(10, 0, 2, 15) },
        p \in { 0, 3000, U16_MAX } }

AppConfig_Values ==
    { [database_config |-> d, server_config |-> s] :
        d \in DatabaseConfig_Values, s \in ServerConfig_Values }

ConnectionPoolConfig_Values ==
    { ConnectionPoolConfig_default } \cup
    { [ConnectionPoolConfig_default EXCEPT !.min_connections = a,
                                           !.max_connections = b,
                                           !.max_connection_age_seconds = g] :
        a \in 0..MaxConn, b \in 0..MaxConn, g \in { None, Some(60) } }

\* The entries of es whose key is not in S, in their order.
Omit(es, S) == SelectSeq(es, LAMBDA e : e.k \notin S)
\* The entries of es with the value of key k replaced by x.
With(es, k, x) == [i \in 1..Len(es) |-> IF es[i].k = k THEN Entry(k, x) ELSE es[i]]
Reverse(es) == [i \in 1..Len(es) |-> es[Len(es) + 1 - i]]
FieldSet(fields) == { fields[i] : i \in 1..Len(fields) }

DatabaseType_Inputs ==
    { Str(DatabaseType_VARIANTS[1]), Str(DatabaseType_VARIANTS[2]),
      Str(Txt_SQLite), Str(Txt_MySQL), Str(Txt_postgres), Str(Txt_empty),
      Num(0), Null }

DatabaseConfig_OmitInputs ==
    { Map(Omit(Serialize_DatabaseConfig(c).m, S)) :
        c \in DatabaseConfig_Values, S \in SUBSET FieldSet(DatabaseConfig_FIELDS) }

DatabaseConfig_OtherInputs ==
    LET es == Serialize_DatabaseConfig(DatabaseConfig_default).m IN
    { Map(With(es, "port", Num(U16_MAX + 1))), Map(With(es, "port", Num(-1))),
      Map(With(es, "port", Str(Txt_empty))), Map(With(es, "host", Num(0))),
      Map(With(es, "database_type", Str(Txt_SQLite))),
      Map(With(es, "database_type", Str(Txt_MySQL))),
      Map(With(es, "password", Num(0))),
      Map(Omit(With(es, "port", Num(-1)), { "host" })),
      Map(Reverse(es)),
      Map(es \o << Entry("port", Num(1)) >>),
      Map(<< Entry("backend", Str(DatabaseType_VARIANTS[1])) >> \o
          Omit(es, { "database_type" })),
      Map(<< Entry("pool", Null) >> \o es),
      Null }

ConnectionPoolConfig_OmitInputs ==
    { Map(Omit(Serialize_ConnectionPoolConfig(c).m, S)) :
        c \in ConnectionPoolConfig_Values,
        S \in SUBSET FieldSet(ConnectionPoolConfig_FIELDS) }

ConnectionPoolConfig_OtherInputs ==
    LET es == Serialize_ConnectionPoolConfig(ConnectionPoolConfig_default).m IN
    { Map(With(es, "min_connections", Num(-1))),
      Map(With(es, "max_lifetime_seconds", Num(-1))),
      Map(With(es, "test_on_borrow", Num(0))),
      Map(<< Entry("test_before_acquire", Bool(FALSE)) >> \o
          Omit(es, { "test_before_aquire" })),
      Map(<< Entry("test_before_acquire", Bool(TRUE)) >> \o es) }

ServerConfig_OmitInputs ==
    { Map(Omit(Serialize_ServerConfig(c).m, S)) :
        c \in ServerConfig_Values, S \in SUBSET FieldSet(ServerConfig_FIELDS) }

ServerConfig_OtherInputs ==
    LET es == Serialize_ServerConfig(ServerConfig_default).m IN
    { Map(With(es, "ip", Str(Txt_ip_256))),
      Map(With(es, "ip", Str(Txt_ip_zero_prefix))),
      Map(With(es, "ip", Str(Txt_ip_short))),
      Map(With(es, "ip", Str(Txt_localhost))),
      Map(With(es, "ip", Num(0))),
      Map(With(es, "port", Num(U16_MAX + 1))),
      Map(Reverse(es)) }

AppConfig_OmitInputs ==
    { Map(Omit(<< Entry("database_config",
                        Map(Omit(Serialize_DatabaseConfig(DatabaseConfig_default).m, D))),
                  Entry("server_config",
                        Map(Omit(Serialize_ServerConfig(ServerConfig_default).m, V))) >>,
               S)) :
        D \in SUBSET FieldSet(DatabaseConfig_FIELDS),
        V \in SUBSET FieldSet(ServerConfig_FIELDS),
        S \in SUBSET FieldSet(AppConfig_FIELDS) }

(***************************************************************************)
(* State.                                                                  *)
(*   pc, app_config, result : src/main.rs -- the position of main, its     *)
(*     local app_config (None before line 7) and what start_service        *)
(*     returned to it (None before the await of line 9 completes);         *)
(*   handed     : the configuration main moved into start_service;         *)
(*   app_states : the AppState values constructed for main's call;         *)
(*   nDefault, nStart : how often main ran AppConfig::default() and        *)
(*     start_service;                                                      *)
(*   call       : the last use of the library's public items by a client   *)
(*     (op), its input (arg) and its outcome (out).                        *)
(***************************************************************************)
VARIABLES pc, app_config, result, handed, app_states, nDefault, nStart, call

vars == << pc, app_config, result, handed, app_states, nDefault, nStart, call >>
mainVars == << pc, app_config, result, handed, app_states, nDefault, nStart >>

Call(op, arg, out) == [op |-> op, arg |-> arg, out |-> out]

Init ==
    /\ pc = "line7"
    /\ app_config = None
    /\ result = None
    /\ handed = None
    /\ app_states = << >>
    /\ nDefault = 0
    /\ nStart = 0
    /\ call = Call("none", Null, Null)

(***************************************************************************)
(* src/main.rs                                                             *)
(***************************************************************************)
\* line 7: let app_config = AppConfig::default();
MainDefault ==
    /\ pc = "line7"
    /\ app_config' = Some(AppConfig_default)
    /\ nDefault' = nDefault + 1
    /\ pc' = "line9"
    /\ UNCHANGED << result, handed, app_states, nStart, call >>

\* line 9: heimdall::start_service(app_config).await
MainStartService ==
    /\ pc = "line9"
    /\ LET r == start_service(Unwrap(app_config)) IN
         /\ result' = Some(r.ret)
         /\ app_states' = r.states
    /\ handed' = app_config
    /\ nStart' = nStart + 1
    /\ pc' = "line9_match"
    /\ UNCHANGED << app_config, nDefault, call >>

\* lines 9-12: if let Err(_e) = ... { todo!() }, else main returns.
\* (the test of the result inverted)
MainMatch_inverted ==
    /\ pc = "line9_match"
    /\ pc' = IF Unwrap(result).ok THEN "todo" ELSE "exit"
    /\ UNCHANGED << app_config, result, handed, app_states, nDefault, nStart, call >>
MainMatch ==
    /\ pc = "line9_match"
    /\ pc' = IF ~Unwrap(result).ok THEN "todo" ELSE "exit"
    /\ UNCHANGED << app_config, result, handed, app_states, nDefault, nStart, call >>

Main == MainDefault \/ MainStartService \/ MainMatch

(***************************************************************************)
(* Uses of the library's public items.  The items are pure functions of    *)
(* their input, so a behaviour follows one use (and, for a serialization,  *)
(* the reading back of what it wrote) next to the run of main.             *)
(***************************************************************************)
Idle == call.op = "none"

Default_DatabaseType ==
    /\ Idle
    /\ call' = Call("DatabaseType::default", Null, DatabaseType_default)
    /\ UNCHANGED mainVars

Default_DatabaseConfig ==
    /\ Idle
    /\ call' = Call("DatabaseConfig::default", Null, DatabaseConfig_default)
    /\ UNCHANGED mainVars

Default_ConnectionPoolConfig ==
    /\ Idle
    /\ call' = Call("ConnectionPoolConfig::default", Null,
                    ConnectionPoolConfig_default)
    /\ UNCHANGED mainVars

Default_ServerConfig ==
    /\ Idle
    /\ call' = Call("ServerConfig::default", Null, ServerConfig_default)
    /\ UNCHANGED mainVars

Default_AppConfig ==
    /\ Idle
    /\ call' = Call("AppConfig::default", Null, AppConfig_default)
    /\ UNCHANGED mainVars

SerializeDatabaseConfig ==
    /\ Idle
    /\ \E c \in DatabaseConfig_Values :
         call' = Call("DatabaseConfig::serialize", c, Serialize_DatabaseConfig(c))
    /\ UNCHANGED mainVars

SerializeConnectionPoolConfig ==
    /\ Idle
    /\ \E c \in ConnectionPoolConfig_Values :
         call' = Call("ConnectionPoolConfig::serialize", c,
                      Serialize_ConnectionPoolConfig(c))
    /\ UNCHANGED mainVars

SerializeServerConfig ==
    /\ Idle
    /\ \E c \in ServerConfig_Values :
         call' = Call("ServerConfig::serialize", c, Serialize_ServerConfig(c))
    /\ UNCHANGED mainVars

SerializeAppConfig ==
    /\ Idle
    /\ \E c \in AppConfig_Values :
         call' = Call("AppConfig::serialize", c, Serialize_AppConfig(c))
    /\ UNCHANGED mainVars

\* Reading back what the last serialization wrote: arg stays the value
\* that was serialized, out becomes the result of deserializing its
\* serialized form.
ReadBackAppConfig ==
    /\ call.op = "AppConfig::serialize"
    /\ call' = Call("AppConfig::read_back", call.arg, Deserialize_AppConfig(call.out))
    /\ UNCHANGED mainVars

ReadBackConnectionPoolConfig ==
    /\ call.op = "ConnectionPoolConfig::serialize"
    /\ call' = Call("ConnectionPoolConfig::read_back", call.arg,
                    Deserialize_ConnectionPoolConfig(call.out))
    /\ UNCHANGED mainVars

DeserializeDatabaseType ==
    /\ Idle
    /\ \E d \in DatabaseType_Inputs :
         call' = Call("DatabaseType::deserialize", d, Deserialize_DatabaseType(d))
    /\ UNCHANGED mainVars

DeserializeDatabaseConfig ==
    /\ Idle
    /\ \E d \in DatabaseConfig_OmitInputs \cup DatabaseConfig_OtherInputs :
         call' = Call("DatabaseConfig::deserialize", d, Deserialize_DatabaseConfig(d))
    /\ UNCHANGED mainVars

DeserializeConnectionPoolConfig ==
    /\ Idle
    /\ \E d \in ConnectionPoolConfig_OmitInputs \cup ConnectionPoolConfig_OtherInputs :
         call' = Call("ConnectionPoolConfig::deserialize", d,
                      Deserialize_ConnectionPoolConfig(d))
    /\ UNCHANGED mainVars

DeserializeServerConfig ==
    /\ Idle
    /\ \E d \in ServerConfig_OmitInputs \cup ServerConfig_OtherInputs :
         call' = Call("ServerConfig::deserialize", d, Deserialize_ServerConfig(d))
    /\ UNCHANGED mainVars

DeserializeAppConfig ==
    /\ Idle
    /\ \E d \in AppConfig_OmitInputs :
         call' = Call("AppConfig::deserialize", d, Deserialize_AppConfig(d))
    /\ UNCHANGED mainVars

StartService ==
    /\ Idle
    /\ \E c \in AppConfig_Values :
         call' = Call("start_service", c, start_service(c))
    /\ UNCHANGED mainVars

Next ==
    \/ MainDefault
    \/ MainStartService
    \/ MainMatch
    \/ Default_DatabaseType
    \/ Default_DatabaseConfig
    \/ Default_ConnectionPoolConfig
    \/ Default_ServerConfig
    \/ Default_AppConfig
    \/ SerializeDatabaseConfig
    \/ SerializeConnectionPoolConfig
    \/ SerializeServerConfig
    \/ SerializeAppConfig
    \/ ReadBackAppConfig
    \/ ReadBackConnectionPoolConfig
    \/ DeserializeDatabaseType
    \/ DeserializeDatabaseConfig
    \/ DeserializeConnectionPoolConfig
    \/ DeserializeServerConfig
    \/ DeserializeAppConfig
    \/ StartService

Spec == Init /\ [][Next]_vars

\* main is the one task of the runtime's block_on: it runs to its end.
FairSpec == Spec /\ WF_vars(Main)

(***************************************************************************)
(* Properties.                                                             *)
(***************************************************************************)
KeySet(d) == { d.m[i].k : i \in 1..Len(d.m) }
Omitted(d, fields) == FieldSet(fields) \ KeySet(d)

\* C1: the default AppConfig, serialized and read back, deserializes
\* successfully to a value equal to the default AppConfig in every field.
C1_DefaultRoundTrip ==
    (call.op = "AppConfig::read_back" /\ call.arg = AppConfig_default)
        => (call.out.ok /\ call.out.val = AppConfig_default)

C1_Witness ==
    /\ call.op = "AppConfig::read_back"
    /\ call.arg = AppConfig_default
    /\ call.out.ok

\* C2: deserializing a backend name succeeds exactly for the names
\* "Postgres" and "SQLite", which yield the Postgres and the SQLite
\* variant; every other name fails with an unknown-variant error.
C2_BackendNames ==
    (call.op = "DatabaseType::deserialize" /\ call.arg.t = "str") =>
        /\ call.out.ok <=> call.arg.s \in { Txt_Postgres, Txt_SQLite }
        /\ call.arg.s = Txt_Postgres => (call.out.ok /\ call.out.val = Postgres)
        /\ call.arg.s = Txt_SQLite => (call.out.ok /\ call.out.val = Sqllite)
        /\ ~call.out.ok => call.out.err = "unknown_variant"

\* C3 as stated: a ConnectionPoolConfig input that omits
\* max_connection_age_seconds deserializes successfully, with None for
\* that field and the default for every other omitted field.
C3_DefaultsForOmitted ==
    ( /\ call.op = "ConnectionPoolConfig::deserialize"
      /\ call.arg \in ConnectionPoolConfig_OmitInputs
      /\ ~HasKey(call.arg, "max_connection_age_seconds") ) =>
        /\ call.out.ok
        /\ call.out.val.max_connection_age_seconds = None
        /\ \A f \in Omitted(call.arg, ConnectionPoolConfig_FIELDS) :
               call.out.val[f] = ConnectionPoolConfig_default[f]

\* C3, amended: a ConnectionPoolConfig input that carries every field but
\* max_connection_age_seconds deserializes successfully, with None for
\* that field when it is omitted; an input that omits any other field is
\* rejected with a missing-field error naming an omitted field, and no
\* default is applied.
C3_OnlyOptionOmissible ==
    ( /\ call.op = "ConnectionPoolConfig::deserialize"
      /\ call.arg \in ConnectionPoolConfig_OmitInputs ) =>
        LET om == Omitted(call.arg, ConnectionPoolConfig_FIELDS) IN
        IF om \subseteq { "max_connection_age_seconds" }
        THEN /\ call.out.ok
             /\ "max_connection_age_seconds" \in om
                    => call.out.val.max_connection_age_seconds = None
        ELSE /\ ~call.out.ok
             /\ call.out.err = "missing_field"
             /\ call.out.at \in om \ { "max_connection_age_seconds" }

C3_Witness ==
    /\ call.op = "ConnectionPoolConfig::deserialize"
    /\ Omitted(call.arg, ConnectionPoolConfig_FIELDS) = { "max_connection_age_seconds" }
    /\ call.out.ok
    /\ call.out.val.max_connection_age_seconds = None

\* Every field that any level of an AppConfig input leaves out.
AppConfig_Omitted(d) ==
    Omitted(d, AppConfig_FIELDS)
    \cup (IF HasKey(d, "database_config")
          THEN Omitted(Get(d, "database_config"), DatabaseConfig_FIELDS) ELSE {})
    \cup (IF HasKey(d, "server_config")
          THEN Omitted(Get(d, "server_config"), ServerConfig_FIELDS) ELSE {})

\* C4 as stated: an AppConfig, DatabaseConfig or ServerConfig input that
\* omits any subset of the fields deserializes successfully, each omitted
\* field taking the value of the type's default construction.
C4_DefaultsForOmitted ==
    /\ ( call.op = "DatabaseConfig::deserialize"
         /\ call.arg \in DatabaseConfig_OmitInputs ) =>
           /\ call.out.ok
           /\ \A f \in Omitted(call.arg, DatabaseConfig_FIELDS) :
                  call.out.val[f] = DatabaseConfig_default[f]
    /\ ( call.op = "ServerConfig::deserialize"
         /\ call.arg \in ServerConfig_OmitInputs ) =>
           /\ call.out.ok
           /\ \A f \in Omitted(call.arg, ServerConfig_FIELDS) :
                  call.out.val[f] = ServerConfig_default[f]
    /\ ( call.op = "AppConfig::deserialize"
         /\ call.arg \in AppConfig_OmitInputs ) =>
           /\ call.out.ok
           /\ \A f \in Omitted(call.arg, AppConfig_FIELDS) :
                  call.out.val[f] = AppConfig_default[f]

\* What the serialized form of value c has under key f equals what the
\* input d has under it, for every field the input carries.
Keeps(d, ser, fields) ==
    \A f \in FieldSet(fields) : HasKey(d, f) => Get(ser, f) = Get(d, f)

\* C4, amended: such an input deserializes successfully exactly when
\* every field it omits, at any level, is of Option type; the one such
\* field is DatabaseConfig's password, which is then None and not the
\* default.  Any other omission, the empty input included, is rejected
\* with a missing-field error naming an omitted field.  Fields present in
\* the input keep the input's value.
C4_OnlyOptionOmissible ==
    /\ ( call.op = "DatabaseConfig::deserialize"
         /\ call.arg \in DatabaseConfig_OmitInputs ) =>
           LET om == Omitted(call.arg, DatabaseConfig_FIELDS) IN
           IF om \subseteq { "password" }
           THEN /\ call.out.ok
                /\ "password" \in om => call.out.val.password = None
                /\ Keeps(call.arg, Serialize_DatabaseConfig(call.out.val),
                         DatabaseConfig_FIELDS)
           ELSE /\ ~call.out.ok
                /\ call.out.err = "missing_field"
                /\ call.out.at \in om \ { "password" }
    /\ ( call.op = "ServerConfig::deserialize"
         /\ call.arg \in ServerConfig_OmitInputs ) =>
           LET om == Omitted(call.arg, ServerConfig_FIELDS) IN
           IF om = {}
           THEN /\ call.out.ok
                /\ Keeps(call.arg, Serialize_ServerConfig(call.out.val),
                         ServerConfig_FIELDS)
           ELSE /\ ~call.out.ok
                /\ call.out.err = "missing_field"
                /\ call.out.at \in om
    /\ ( call.op = "AppConfig::deserialize"
         /\ call.arg \in AppConfig_OmitInputs ) =>
           LET om == AppConfig_Omitted(call.arg) IN
           IF om \subseteq { "password" }
           THEN /\ call.out.ok
                /\ "password" \in om
                       => call.out.val.database_config.password = None
                /\ Keeps(Get(call.arg, "database_config"),
                         Serialize_DatabaseConfig(call.out.val.database_config),
                         DatabaseConfig_FIELDS)
                /\ Keeps(Get(call.arg, "server_config"),
                         Serialize_ServerConfig(call.out.val.server_config),
                         ServerConfig_FIELDS)
           ELSE /\ ~call.out.ok
                /\ call.out.err = "missing_field"
                /\ call.out.at \in om \ { "password" }

C4_Witness ==
    /\ call.op = "DatabaseConfig::deserialize"
    /\ Omitted(call.arg, DatabaseConfig_FIELDS) = { "password" }
    /\ call.out.ok
    /\ call.out.val.password = None
    /\ call.out.val.password # DatabaseConfig_default.password

\* C5: default construction yields the documented values: DatabaseConfig
\* is (the SQLite variant, "localhost", 5432, "development-user",
\* Some("development-password")); ServerConfig is (127.0.0.1, 3000);
\* ConnectionPoolConfig is (30, 100, 150, 50, 300, false, false, None), so
\* its min_connections <= max_connections; and AppConfig, in main too, is
\* made of exactly these DatabaseConfig and ServerConfig values.
C5_Defaults ==
    LET db  == [ database_type |-> Sqllite,
                 host          |-> Txt_localhost,
                 port          |-> 5432,
                 username      |-> Txt_development_user,
                 password      |-> << Txt_development_password >> ]
        srv == [ ip   |-> [v |-> "V4", octets |-> << 127, 0, 0, 1 >>],
                 port |-> 3000 ]
    IN
    /\ call.op = "DatabaseType::default" => call.out = Sqllite
    /\ call.op = "DatabaseConfig::default" => call.out = db
    /\ call.op = "ServerConfig::default" => call.out = srv
    /\ call.op = "ConnectionPoolConfig::default" =>
         /\ call.out = [ min_connections            |-> 30,
                         max_connections            |-> 100,
                         max_lifetime_seconds       |-> 150,
                         connection_timeout_ms      |-> 50,
                         idle_timeout_ms            |-> 300,
                         test_before_aquire         |-> FALSE,
                         test_on_borrow             |-> FALSE,
                         max_connection_age_seconds |-> << >> ]
         /\ call.out.min_connections <= call.out.max_connections
    /\ call.op = "AppConfig::default" =>
         call.out = [database_config |-> db, server_config |-> srv]
    /\ pc # "line7" =>
         app_config = << [database_config |-> db, server_config |-> srv] >>

C5_Witness ==
    /\ call.op = "AppConfig::default"
    /\ call.out.database_config.database_type = Sqllite
    /\ pc = "line9"

C7_StartServiceOk ==
    /\ call.op = "start_service" =>
         /\ call.out.ret.ok
         /\ Len(call.out.states) = 1
         /\ call.out.states[1].config = call.arg
    /\ pc \in { "line9_match", "exit", "todo" } =>
         /\ result # None
         /\ Unwrap(result).ok
         /\ Len(app_states) = 1
         /\ app_states[1].config = AppConfig_default

C7_Witness ==
    /\ call.op = "start_service"
    /\ call.arg = AppConfig_default
    /\ call.out.ret.ok
    /\ pc = "exit"
    /\ Unwrap(result).ok

\* C9: min_connections <= max_connections is validated nowhere: a
\* ConnectionPoolConfig input that carries every non-Option field
\* deserializes successfully to exactly the min_connections and
\* max_connections it carries, whatever their order, and a constructed
\* value serializes and reads back unchanged; so values with
\* min_connections > max_connections are produced without error.
C9_MinMaxNotValidated ==
    /\ ( /\ call.op = "ConnectionPoolConfig::deserialize"
         /\ call.arg \in ConnectionPoolConfig_OmitInputs
         /\ Omitted(call.arg, ConnectionPoolConfig_FIELDS)
                \subseteq { "max_connection_age_seconds" } ) =>
           /\ call.out.ok
           /\ call.out.val.min_connections = Get(call.arg, "min_connections").n
           /\ call.out.val.max_connections = Get(call.arg, "max_connections").n
    /\ call.op = "ConnectionPoolConfig::read_back" =>
           /\ call.out.ok
           /\ call.out.val = call.arg

C9_Witness ==
    /\ call.op = "ConnectionPoolConfig::deserialize"
    /\ call.out.ok
    /\ call.out.val.min_connections > call.out.val.max_connections

\* C10: every run of main performs one default AppConfig construction,
\* then one start_service call with that unmodified configuration, and
\* then returns; the todo!() of the failure branch is never reached.
C10_MainRun ==
    /\ [](pc # "todo")
    /\ [](pc = "line7" => (nDefault = 0 /\ nStart = 0))
    /\ [](pc = "line9" =>
            (nDefault = 1 /\ nStart = 0 /\ app_config = << AppConfig_default >>))
    /\ [](pc \in { "line9_match", "exit" } =>
            (nDefault = 1 /\ nStart = 1 /\ handed = << AppConfig_default >>))
    /\ [][pc = "exit" => pc' = "exit"]_vars
    /\ <>(pc = "exit")

C10_Witness ==
    /\ pc = "exit"
    /\ nDefault = 1
    /\ nStart = 1
    /\ handed = << AppConfig_default >>

=============================================================================
